---- MODULE Spec2Model ----
(***************************************************************************)
(* Model of web/static/js/color-utils.js: the colour helpers hexToRgb,     *)
(* getLuminance, getContrastColor, isValidHex and the two renderers        *)
(* createColoredHex (DOM node) and createColoredHexHTML (markup string).   *)
(*                                                                         *)
(* The library holds no state between calls.  The state of the model is    *)
(* the last call made: which function, its arguments, and what it          *)
(* returned or threw.                                                      *)
(*                                                                         *)
(* An input string is a sequence of one-character strings, so that the     *)
(* regular expressions of the source are evaluated character by            *)
(* character.  Strings the code produces (class strings, style values,     *)
(* markup) are TLA+ strings built by concatenation, as the template        *)
(* literals of the source build them.                                      *)
(***************************************************************************)
EXTENDS Integers, Sequences, FiniteSets, TLC

VARIABLES op, hexValue, options, result, thrown

vars == <<op, hexValue, options, result, thrown>>

(***************************************************************************)
(* Bounds and input sets                                                   *)
(***************************************************************************)
\* Longest input string enumerated exhaustively over Alphabet.
MaxLen == 7

\* One representative per character class the patterns distinguish:
\* the hash, a decimal digit, an upper-case and a lower-case hex letter,
\* and a letter that is no hex digit.
Alphabet == {"#", "8", "F", "a", "g"}

AllStrings == UNION {[1..k -> Alphabet] : k \in 0..MaxLen}

\* Two-digit channel values around the brightness threshold and at the ends.
ChannelPairs == {<<"0","0">>, <<"7","f">>, <<"8","0">>, <<"8","1">>, <<"F","F">>}

ColourStrings ==
    {p \o x \o y \o z : p \in {<< >>, <<"#">>},
                        x \in ChannelPairs, y \in ChannelPairs, z \in ChannelPairs}

\* An optional hash followed by n copies of one character.
UniformStrings ==
    {p \o [i \in 1..n |-> c] : p \in {<< >>, <<"#">>},
                               c \in {"0", "8", "f", "F", "g"},
                               n \in 0..MaxLen}

Examples ==
    { <<"#","F","F","5","7","3","3">>,
      <<"F","F","5","7","3","3">>,
      <<"n","o","t","-","a","-","c","o","l","o","r">>,
      <<"#","8","0","8","0","8","0">>,
      <<"#","8","1","8","0","8","0">>,
      <<"#","f","0","0">>,
      <<"#","8","F","a">>,
      <<"8","F","a">>,
      <<"#","f","f","f","f","f","f"," ">> }

\* Arguments of the pure functions.
HexInputs == AllStrings \cup ColourStrings \cup UniformStrings \cup Examples

\* Arguments of the two renderers (each is combined with every options value).
RenderInputs == UniformStrings \cup ColourStrings \cup Examples

(***************************************************************************)
(* Characters and strings                                                  *)
(***************************************************************************)
Digits       == {"0","1","2","3","4","5","6","7","8","9"}
LowerHex     == {"a","b","c","d","e","f"}
UpperHex     == {"A","B","C","D","E","F"}

\* parseInt(c, 16) of one hexadecimal digit.
HexDigitValue(c) ==
    CASE c = "0" -> 0  [] c = "1" -> 1  [] c = "2" -> 2  [] c = "3" -> 3
      [] c = "4" -> 4  [] c = "5" -> 5  [] c = "6" -> 6  [] c = "7" -> 7
      [] c = "8" -> 8  [] c = "9" -> 9
      [] c \in {"a","A"} -> 10  [] c \in {"b","B"} -> 11
      [] c \in {"c","C"} -> 12  [] c \in {"d","D"} -> 13
      [] c \in {"e","E"} -> 14  [] c \in {"f","F"} -> 15

\* parseInt(pair, 16) of a two-digit group captured by the pattern.
ParseInt16(s, i) == HexDigitValue(s[i]) * 16 + HexDigitValue(s[i + 1])

\* The JavaScript string a character sequence stands for.
RECURSIVE Str(_)
Str(s) == IF s = << >> THEN "" ELSE s[1] \o Str(Tail(s))

StartsWithHash(s) == Len(s) >= 1 /\ s[1] = "#"

(***************************************************************************)
(* hexToRgb                                                                *)
(***************************************************************************)
\* The class [a-f\d] under the i flag: a decimal digit or a hex letter of
\* either case.
HexToRgbClass == Digits \cup LowerHex \cup UpperHex

\* The pattern without its end anchor: anything may follow the six digits.
HexToRgbMatchUnanchored(hex) ==
    LET start == IF StartsWithHash(hex) THEN 2 ELSE 1
    IN  IF Len(hex) >= start + 5 /\ \A i \in start..(start + 5) : hex[i] \in HexToRgbClass
        THEN start
        ELSE 0

\* /^#?([a-f\d]{2})([a-f\d]{2})([a-f\d]{2})$/i.exec(hex): the index of the
\* first captured digit when the pattern matches, 0 (no match) otherwise.
HexToRgbMatch(hex) ==
    LET start == IF StartsWithHash(hex) THEN 2 ELSE 1
    IN  IF Len(hex) = start + 5 /\ \A i \in start..Len(hex) : hex[i] \in HexToRgbClass
        THEN start
        ELSE 0

\* hexToRgb made to expand the three-digit shorthand (each digit doubled).
hexToRgbExpandShorthand(hex) ==
    LET start == IF StartsWithHash(hex) THEN 2 ELSE 1
    IN  IF Len(hex) = start + 2 /\ \A i \in start..Len(hex) : hex[i] \in HexToRgbClass
        THEN [r |-> HexDigitValue(hex[start]) * 17,
              g |-> HexDigitValue(hex[start + 1]) * 17,
              b |-> HexDigitValue(hex[start + 2]) * 17]
        ELSE IF HexToRgbMatch(hex) # 0
             THEN [r |-> ParseInt16(hex, HexToRgbMatch(hex)),
                   g |-> ParseInt16(hex, HexToRgbMatch(hex) + 2),
                   b |-> ParseInt16(hex, HexToRgbMatch(hex) + 4)]
             ELSE [r |-> 0, g |-> 0, b |-> 0]

hexToRgb(hex) ==
    LET m == HexToRgbMatch(hex)
    IN  IF m # 0
        THEN [r |-> ParseInt16(hex, m),
              g |-> ParseInt16(hex, m + 2),
              b |-> ParseInt16(hex, m + 4)]
        ELSE [r |-> 0, g |-> 0, b |-> 0]

(***************************************************************************)
(* getLuminance                                                            *)
(***************************************************************************)
\* The sRGB linearisation of one channel.  The test val / 255 <= 0.03928 is
\* decided exactly in integers; the value of the chosen branch is a real
\* number and is kept as the branch taken and the channel it is taken on.
Linearize(val) ==
    IF val * 100000 <= 3928 * 255
    THEN [branch |-> "div12.92", channel |-> val]
    ELSE [branch |-> "pow2.4",   channel |-> val]

\* 0.2126 * r + 0.7152 * g + 0.0722 * b over the linearised channels, kept
\* as its three terms.
getLuminance(hex) ==
    LET rgb == hexToRgb(hex)
    IN  [r |-> Linearize(rgb.r), g |-> Linearize(rgb.g), b |-> Linearize(rgb.b)]

(***************************************************************************)
(* getContrastColor                                                        *)
(***************************************************************************)
\* brightness * 1000: the division by 1000 is exact enough in doubles that
\* brightness > 128 holds exactly when the integer sum exceeds 128000.
BrightnessTimes1000(rgb) == rgb.r * 299 + rgb.g * 587 + rgb.b * 114

\* The threshold taken as inclusive.
getContrastColorInclusive(hex) ==
    LET rgb == hexToRgb(hex)
    IN  IF BrightnessTimes1000(rgb) >= 128 * 1000 THEN "#000000" ELSE "#ffffff"

getContrastColor(hex) ==
    LET rgb == hexToRgb(hex)
    IN  IF BrightnessTimes1000(rgb) > 128 * 1000 THEN "#000000" ELSE "#ffffff"

(***************************************************************************)
(* isValidHex                                                              *)
(***************************************************************************)
\* The class [A-Fa-f0-9].
IsValidHexClass == UpperHex \cup LowerHex \cup Digits

\* /^#([A-Fa-f0-9]{6}|[A-Fa-f0-9]{3})$/.test(hex): the hash is not optional
\* in the pattern.
isValidHex(hex) ==
    /\ StartsWithHash(hex)
    /\ Len(hex) \in {7, 4}
    /\ \A i \in 2..Len(hex) : hex[i] \in IsValidHexClass

(***************************************************************************)
(* The options argument                                                    *)
(***************************************************************************)
\* Keys an options object may carry: the four the renderers read and one
\* they do not.
OptionKeys == {"mode", "size", "showBorder", "className", "theme"}

ModeValues      == {"inline", "block", "flex"}
SizeValues      == {"sm", "md", "lg", "xl"}
ClassNameValues == {"", "my-class"}

\* An options argument is left out (undefined), null, or an object.  An
\* object is the set of keys it carries and their values; the value of a key
\* it does not carry is never read and is held at a fixed filler.
OptionsObjects ==
    {o \in [kind : {"object"}, keys : SUBSET OptionKeys, mode : ModeValues \cup {"-"},
            size : SizeValues \cup {"-"}, showBorder : BOOLEAN,
            className : ClassNameValues \cup {"-"}] :
        /\ ("mode" \in o.keys) = (o.mode # "-")
        /\ ("size" \in o.keys) = (o.size # "-")
        /\ ("showBorder" \notin o.keys) => (o.showBorder = FALSE)
        /\ ("className" \in o.keys) = (o.className # "-")}

NoObject(kind) ==
    [kind |-> kind, keys |-> {}, mode |-> "-", size |-> "-", showBorder |-> FALSE,
     className |-> "-"]

OptionsArgs == {NoObject("undefined"), NoObject("null")} \cup OptionsObjects

\* The default parameter value `options = {}`: used when the argument is
\* undefined, and only then.
DefaultParameter(opts) == IF opts.kind = "undefined" THEN NoObject("object") ELSE opts

\* The destructuring pattern { mode = 'inline', size = 'md', showBorder = true,
\* className = '' } = options.  Destructuring null throws a TypeError.
DestructureThrows(opts) == DefaultParameter(opts).kind = "null"

Destructure(opts) ==
    LET o == DefaultParameter(opts)
    IN  [mode       |-> IF "mode" \in o.keys THEN o.mode ELSE "inline",
         size       |-> IF "size" \in o.keys THEN o.size ELSE "md",
         showBorder |-> IF "showBorder" \in o.keys THEN o.showBorder ELSE TRUE,
         className  |-> IF "className" \in o.keys THEN o.className ELSE ""]

(***************************************************************************)
(* Pieces shared by the two renderers                                      *)
(***************************************************************************)
sizeClasses ==
    [sm |-> "text-xs px-1.5 py-0.5",
     md |-> "text-xs px-2 py-1",
     lg |-> "text-sm px-2.5 py-1.5"]

\* A lookup that writes nothing for a key the table lacks.
SizeClassTextEmpty(size) ==
    IF size \in DOMAIN sizeClasses THEN sizeClasses[size] ELSE ""

\* ${sizeClasses[size]}: a key the table lacks reads as undefined, which a
\* template literal writes as the text "undefined".
SizeClassText(size) ==
    IF size \in DOMAIN sizeClasses THEN sizeClasses[size] ELSE "undefined"

\* hexValue.startsWith('#') ? hexValue : `#${hexValue}`
Normalize(hex) == IF StartsWithHash(hex) THEN hex ELSE <<"#">> \o hex

ElementTag(mode) == IF mode = "block" THEN "div" ELSE "span"

ClassString(size, className) ==
    "colored-hex font-mono rounded " \o SizeClassText(size) \o " " \o className

\* The two border colours exchanged.
BorderColorSwapped(textColor) ==
    IF textColor = "#000000" THEN "rgba(255,255,255,0.3)" ELSE "rgba(0,0,0,0.2)"

BorderColor(textColor) ==
    IF textColor = "#000000" THEN "rgba(0,0,0,0.2)" ELSE "rgba(255,255,255,0.3)"

(***************************************************************************)
(* createColoredHex                                                        *)
(***************************************************************************)
\* document.createElement(tag): no class, no inline style, no text.
CreateElement(tag) ==
    [tag |-> tag, className |-> "", backgroundColor |-> "", color |-> "",
     border |-> "", textContent |-> ""]

NoValue == [tag |-> "", className |-> "", backgroundColor |-> "", color |-> "",
            border |-> "", textContent |-> ""]

\* The options destructured before the hex is validated.
createColoredHexThrowsEarly(hex, opts) == DestructureThrows(opts)

createColoredHexThrows(hex, opts) == isValidHex(hex) /\ DestructureThrows(opts)

createColoredHex(hex, opts) ==
    IF ~isValidHex(hex)
    THEN [CreateElement("span") EXCEPT !.textContent = Str(hex)]
    ELSE LET h         == Normalize(hex)
             o         == Destructure(opts)
             textColor == getContrastColor(h)
             element   == [CreateElement(ElementTag(o.mode)) EXCEPT
                              !.className       = ClassString(o.size, o.className),
                              !.backgroundColor = Str(h),
                              !.color           = textColor,
                              !.textContent     = Str(h)]
         IN  IF o.showBorder
             THEN [element EXCEPT !.border = "1px solid " \o BorderColor(textColor)]
             ELSE element

(***************************************************************************)
(* createColoredHexHTML                                                    *)
(***************************************************************************)
createColoredHexHTMLThrows(hex, opts) == isValidHex(hex) /\ DestructureThrows(opts)

\* The border written whatever showBorder says.
HTMLBorderStyleAlways(showBorder, textColor) ==
    "border: 1px solid " \o BorderColor(textColor) \o ";"

HTMLBorderStyle(showBorder, textColor) ==
    IF showBorder THEN "border: 1px solid " \o BorderColor(textColor) \o ";" ELSE ""

\* The template literal the function returns, with its five substitutions.
HTMLTemplate(tag, classString, hex, textColor, borderStyle) ==
    "<" \o tag \o " class=\"" \o classString
        \o "\" style=\"background-color: " \o hex
        \o "; color: " \o textColor \o "; " \o borderStyle \o "\">"
        \o hex \o "</" \o tag \o ">"

createColoredHexHTML(hex, opts) ==
    IF ~isValidHex(hex)
    THEN Str(hex)
    ELSE LET h           == Normalize(hex)
             o           == Destructure(opts)
             textColor   == getContrastColor(h)
             tag         == ElementTag(o.mode)
             borderStyle == HTMLBorderStyle(o.showBorder, textColor)
         IN  HTMLTemplate(tag, ClassString(o.size, o.className), Str(h),
                          textColor, borderStyle)

(***************************************************************************)
(* The calls.  A call is made when no call is in progress; the functions   *)
(* are synchronous and each runs to its return or its throw in one step.   *)
(***************************************************************************)
NoOptions == NoObject("undefined")

Init ==
    /\ op = "none"
    /\ hexValue = << >>
    /\ options = NoOptions
    /\ result = NoValue
    /\ thrown = "none"

CallHexToRgb ==
    /\ op = "none"
    /\ \E hex \in HexInputs :
        /\ op' = "hexToRgb"
        /\ hexValue' = hex
        /\ options' = NoOptions
        /\ result' = hexToRgb(hex)
        /\ thrown' = "none"

CallGetLuminance ==
    /\ op = "none"
    /\ \E hex \in HexInputs :
        /\ op' = "getLuminance"
        /\ hexValue' = hex
        /\ options' = NoOptions
        /\ result' = getLuminance(hex)
        /\ thrown' = "none"

CallGetContrastColor ==
    /\ op = "none"
    /\ \E hex \in HexInputs :
        /\ op' = "getContrastColor"
        /\ hexValue' = hex
        /\ options' = NoOptions
        /\ result' = getContrastColor(hex)
        /\ thrown' = "none"

CallIsValidHex ==
    /\ op = "none"
    /\ \E hex \in HexInputs :
        /\ op' = "isValidHex"
        /\ hexValue' = hex
        /\ options' = NoOptions
        /\ result' = isValidHex(hex)
        /\ thrown' = "none"

CallCreateColoredHex ==
    /\ op = "none"
    /\ \E hex \in RenderInputs, opts \in OptionsArgs :
        /\ op' = "createColoredHex"
        /\ hexValue' = hex
        /\ options' = opts
        /\ IF createColoredHexThrows(hex, opts)
           THEN result' = NoValue /\ thrown' = "TypeError"
           ELSE result' = createColoredHex(hex, opts) /\ thrown' = "none"

CallCreateColoredHexHTML ==
    /\ op = "none"
    /\ \E hex \in RenderInputs, opts \in OptionsArgs :
        /\ op' = "createColoredHexHTML"
        /\ hexValue' = hex
        /\ options' = opts
        /\ IF createColoredHexHTMLThrows(hex, opts)
           THEN result' = NoValue /\ thrown' = "TypeError"
           ELSE result' = createColoredHexHTML(hex, opts) /\ thrown' = "none"

\* The call is over: the library keeps nothing of it (the file declares no
\* variable outside its functions), so the next call starts as the first did.
Return ==
    /\ op # "none"
    /\ op' = "none"
    /\ hexValue' = << >>
    /\ options' = NoOptions
    /\ result' = NoValue
    /\ thrown' = "none"

Next ==
    \/ CallHexToRgb
    \/ CallGetLuminance
    \/ CallGetContrastColor
    \/ CallIsValidHex
    \/ CallCreateColoredHex
    \/ CallCreateColoredHexHTML
    \/ Return

Spec == Init /\ [][Next]_vars

(***************************************************************************)
(* Vocabulary of the properties, stated apart from the functions above     *)
(***************************************************************************)
LowerDigits == <<"0","1","2","3","4","5","6","7","8","9","a","b","c","d","e","f">>
UpperDigits == <<"0","1","2","3","4","5","6","7","8","9","A","B","C","D","E","F">>

IsHexDigit(c) == \E n \in 1..16 : c \in {LowerDigits[n], UpperDigits[n]}

\* The value of a hexadecimal digit in base 16.
DigitValue(c) == CHOOSE v \in 0..15 : c \in {LowerDigits[v + 1], UpperDigits[v + 1]}

PairValue(s, i) == DigitValue(s[i]) * 16 + DigitValue(s[i + 1])

StripHash(s) == IF Len(s) >= 1 /\ s[1] = "#" THEN Tail(s) ELSE s

\* An optional '#' followed by exactly n hexadecimal digits and nothing else.
HexDigitsOptionalHash(s, n) ==
    /\ Len(StripHash(s)) = n
    /\ \A i \in 1..n : IsHexDigit(StripHash(s)[i])

HasHash(s) == Len(s) >= 1 /\ s[1] = "#"

Black == "#000000"
White == "#ffffff"

BlackBorder == "1px solid rgba(0,0,0,0.2)"
WhiteBorder == "1px solid rgba(255,255,255,0.3)"

Renderers == {"createColoredHex", "createColoredHexHTML"}

\* The option values in force: the caller's where given, the documented
\* default otherwise.
GivenShowBorder == IF "showBorder" \in options.keys THEN options.showBorder ELSE TRUE
GivenSize       == IF "size" \in options.keys THEN options.size ELSE "md"
GivenClassName  == IF "className" \in options.keys THEN options.className ELSE ""
GivenMode       == IF "mode" \in options.keys THEN options.mode ELSE "inline"

\* A border declaration of the style attribute for a border value ("" when
\* there is no border).
BorderDeclaration(border) == IF border = "" THEN "" ELSE "border: " \o border \o ";"

\* Every class string the renderers can compose from the option values.
ClassStrings ==
    {ClassString(sz, cn) : sz \in SizeValues, cn \in ClassNameValues}

FF5733 == <<"#","F","F","5","7","3","3">>

(***************************************************************************)
(* C1: isValidHex(s) is true exactly when s is an optional '#' followed by *)
(* exactly 6 or exactly 3 hexadecimal digits and nothing else.             *)
(***************************************************************************)
C1_IsValidHexOptionalHash ==
    op = "isValidHex" =>
        (result = (HexDigitsOptionalHash(hexValue, 6) \/ HexDigitsOptionalHash(hexValue, 3)))

(***************************************************************************)
(* C2: hexToRgb returns three integer channels in 0..255; for an optional  *)
(* '#' and exactly 6 hex digits each channel is the base-16 value of its   *)
(* pair of digits, and for every other input the result is {0, 0, 0}.      *)
(***************************************************************************)
C2_HexToRgbChannels ==
    op = "hexToRgb" =>
        /\ result.r \in 0..255 /\ result.g \in 0..255 /\ result.b \in 0..255
        /\ IF HexDigitsOptionalHash(hexValue, 6)
           THEN LET d == StripHash(hexValue)
                IN  result = [r |-> PairValue(d, 1), g |-> PairValue(d, 3),
                              b |-> PairValue(d, 5)]
           ELSE result = [r |-> 0, g |-> 0, b |-> 0]
        /\ (hexValue = FF5733 => result = [r |-> 255, g |-> 87, b |-> 51])

C2_Witness ==
    /\ op = "hexToRgb"
    /\ hexValue = FF5733
    /\ result = [r |-> 255, g |-> 87, b |-> 51]

(***************************************************************************)
(* C3: getContrastColor(h) is '#000000' when (R*299 + G*587 + B*114)/1000  *)
(* exceeds 128 and '#ffffff' otherwise, for the channels hexToRgb(h)       *)
(* returns; a brightness of exactly 128 ('#808080') gives '#ffffff';       *)
(* '#ffffff' gives '#000000' and '#000000' gives '#ffffff'.  The result    *)
(* is determined by the input alone.                                       *)
(***************************************************************************)
C3_ContrastColorThreshold ==
    op = "getContrastColor" =>
        LET rgb == hexToRgb(hexValue)
            sum == rgb.r * 299 + rgb.g * 587 + rgb.b * 114
        IN  /\ result \in {Black, White}
            /\ (result = Black) = (sum > 128000)
            /\ (hexValue = <<"#","8","0","8","0","8","0">> => result = White)
            /\ (hexValue = <<"#","f","f","f","f","f","f">> => result = Black)
            /\ (hexValue = <<"#","0","0","0","0","0","0">> => result = White)

C3_Witness ==
    /\ op = "getContrastColor"
    /\ hexValue = <<"#","8","0","8","0","8","0">>
    /\ hexToRgb(hexValue) = [r |-> 128, g |-> 128, b |-> 128]
    /\ result = White

(***************************************************************************)
(* C4: on an input isValidHex rejects, whatever the options (null          *)
(* included), createColoredHex returns a span whose text is the input and  *)
(* which has no class, background, colour or border, and                   *)
(* createColoredHexHTML returns the input string itself.                   *)
(***************************************************************************)
C4_InvalidHexPlainText ==
    /\ (op = "createColoredHex" /\ ~isValidHex(hexValue)) =>
          /\ thrown = "none"
          /\ result = [tag |-> "span", className |-> "", backgroundColor |-> "",
                       color |-> "", border |-> "", textContent |-> Str(hexValue)]
    /\ (op = "createColoredHexHTML" /\ ~isValidHex(hexValue)) =>
          /\ thrown = "none"
          /\ result = Str(hexValue)

C4_Witness ==
    /\ op = "createColoredHex"
    /\ hexValue = <<"n","o","t","-","a","-","c","o","l","o","r">>
    /\ options.kind = "null"
    /\ thrown = "none"
    /\ result.textContent = "not-a-color"
    /\ result.backgroundColor = ""

(***************************************************************************)
(* C5: for 6 (or 3) hex digits with no leading '#', both renderers give a  *)
(* styled unit whose background and text are the input with '#' put in     *)
(* front, and whose text colour is getContrastColor of that value.         *)
(***************************************************************************)
C5_BareDigitsStyled ==
    (/\ op \in Renderers
     /\ ~HasHash(hexValue)
     /\ (HexDigitsOptionalHash(hexValue, 6) \/ HexDigitsOptionalHash(hexValue, 3))
     /\ options.kind # "null") =>
        LET h  == "#" \o Str(hexValue)
            tc == getContrastColor(<<"#">> \o hexValue)
        IN  IF op = "createColoredHex"
            THEN /\ result.backgroundColor = h
                 /\ result.textContent = h
                 /\ result.color = tc
            ELSE \E tag \in {"div", "span"}, cls \in ClassStrings,
                    border \in {"", BlackBorder, WhiteBorder} :
                    result = HTMLTemplate(tag, cls, h, tc, BorderDeclaration(border))

(***************************************************************************)
(* C6: for every hex value and every options object (or none), the markup  *)
(* of createColoredHexHTML carries what createColoredHex sets on its node: *)
(* the same tag, class string, background colour, text colour, border      *)
(* declaration (present in one exactly when in the other) and text; on an  *)
(* invalid input both are the bare input text.                             *)
(***************************************************************************)
C6_SameRendering ==
    (op = "createColoredHexHTML" /\ options.kind # "null") =>
        /\ thrown = "none"
        /\ ~createColoredHexThrows(hexValue, options)
        /\ LET node == createColoredHex(hexValue, options)
           IN  IF /\ node.className = "" /\ node.backgroundColor = ""
                  /\ node.color = "" /\ node.border = ""
               THEN /\ node.tag = "span"
                    /\ result = node.textContent
               ELSE /\ node.tag = (IF GivenMode = "block" THEN "div" ELSE "span")
                    /\ node.textContent = node.backgroundColor
                    /\ result = HTMLTemplate(node.tag, node.className,
                                             node.backgroundColor, node.color,
                                             BorderDeclaration(node.border))

C6_Witness ==
    /\ op = "createColoredHexHTML"
    /\ hexValue = FF5733
    /\ options.kind = "object"
    /\ options.keys = {"mode", "size", "className"}
    /\ options.mode = "block" /\ options.size = "lg" /\ options.className = "my-class"
    /\ createColoredHex(hexValue, options).border = BlackBorder
    /\ result = "<div class=\"colored-hex font-mono rounded text-sm px-2.5 py-1.5 my-class\" style=\"background-color: #FF5733; color: #000000; border: 1px solid rgba(0,0,0,0.2);\">#FF5733</div>"

(***************************************************************************)
(* C7: no call of any of the six functions ends in an exception, a         *)
(* rendering call with a valid hex and null options included.              *)
(***************************************************************************)
C7_NoCallThrows == thrown = "none"

(***************************************************************************)
(* C8: for a valid hex, with showBorder true or omitted the output has a   *)
(* '1px solid' border that is 'rgba(0,0,0,0.2)' exactly when the text      *)
(* colour is '#000000' and 'rgba(255,255,255,0.3)' exactly when it is      *)
(* '#ffffff'; with showBorder false there is no border declaration; with   *)
(* mode 'block' the tag is div.                                            *)
(***************************************************************************)
C8_BorderFollowsTextColor ==
    (op \in Renderers /\ isValidHex(hexValue) /\ thrown = "none") =>
        IF op = "createColoredHex"
        THEN /\ result.color \in {Black, White}
             /\ GivenShowBorder =>
                   /\ (result.border = BlackBorder) = (result.color = Black)
                   /\ (result.border = WhiteBorder) = (result.color = White)
             /\ ~GivenShowBorder => result.border = ""
             /\ GivenMode = "block" => result.tag = "div"
        ELSE \E tag \in {"div", "span"}, cls \in ClassStrings, tc \in {Black, White} :
                /\ GivenMode = "block" => tag = "div"
                /\ result = HTMLTemplate(tag, cls, Str(hexValue), tc,
                      IF ~GivenShowBorder THEN ""
                      ELSE IF tc = Black THEN "border: 1px solid rgba(0,0,0,0.2);"
                           ELSE "border: 1px solid rgba(255,255,255,0.3);")

C8_Witness ==
    /\ op = "createColoredHexHTML"
    /\ hexValue = FF5733
    /\ options.kind = "object"
    /\ options.keys = {"mode", "showBorder"}
    /\ options.mode = "block" /\ options.showBorder = FALSE
    /\ result = "<div class=\"colored-hex font-mono rounded text-xs px-2 py-1 \" style=\"background-color: #FF5733; color: #000000; \">#FF5733</div>"

(***************************************************************************)
(* C9: the class string of a valid hex is the base classes, then the size  *)
(* classes of the table (md when size is omitted), then className.         *)
(***************************************************************************)
BaseClasses == "colored-hex font-mono rounded"

TableClasses(size) ==
    CASE size = "sm" -> "text-xs px-1.5 py-0.5"
      [] size = "md" -> "text-xs px-2 py-1"
      [] size = "lg" -> "text-sm px-2.5 py-1.5"

\* The node or markup carries one of the class strings given.
CarriesClassString(candidates) ==
    IF op = "createColoredHex"
    THEN result.className \in candidates
    ELSE \E cls \in candidates, tag \in {"div", "span"}, tc \in {Black, White},
            border \in {"", BlackBorder, WhiteBorder} :
            result = HTMLTemplate(tag, cls, Str(hexValue), tc, BorderDeclaration(border))

\* C9 as stated: for a size outside the table the string carries only the
\* base classes and className, with nothing standing in for the size.
C9_UnknownSizeLeavesNoToken ==
    (op \in Renderers /\ isValidHex(hexValue) /\ thrown = "none") =>
        IF GivenSize \in {"sm", "md", "lg"}
        THEN CarriesClassString(
                {BaseClasses \o " " \o TableClasses(GivenSize) \o " " \o GivenClassName})
        ELSE CarriesClassString(
                {BaseClasses \o " " \o GivenClassName,
                 BaseClasses \o "  " \o GivenClassName})

\* C9 as amended: for a size that names no entry of the table the text
\* "undefined" stands where the size classes would.
C9_ClassStringComposition ==
    (op \in Renderers /\ isValidHex(hexValue) /\ thrown = "none") =>
        IF GivenSize \in {"sm", "md", "lg"}
        THEN CarriesClassString(
                {BaseClasses \o " " \o TableClasses(GivenSize) \o " " \o GivenClassName})
        ELSE CarriesClassString(
                {BaseClasses \o " undefined " \o GivenClassName})

C9_Witness ==
    /\ op = "createColoredHex"
    /\ isValidHex(hexValue)
    /\ "size" \in options.keys /\ options.size = "xl"
    /\ "className" \in options.keys /\ options.className = "my-class"
    /\ result.className = "colored-hex font-mono rounded undefined my-class"

(***************************************************************************)
(* C10: a 3-digit shorthand ('#' and three hex digits) is rendered styled, *)
(* with the 3-digit value as background, but its text colour is always     *)
(* '#ffffff' and its border, when shown, always 'rgba(255,255,255,0.3)',   *)
(* whatever the digits.                                                    *)
(***************************************************************************)
C10_ShorthandAlwaysWhiteText ==
    (/\ op \in Renderers
     /\ HasHash(hexValue) /\ HexDigitsOptionalHash(hexValue, 3)
     /\ thrown = "none") =>
        IF op = "createColoredHex"
        THEN /\ result.className # ""
             /\ result.backgroundColor = Str(hexValue)
             /\ result.textContent = Str(hexValue)
             /\ result.color = White
             /\ result.border = (IF GivenShowBorder THEN WhiteBorder ELSE "")
        ELSE \E tag \in {"div", "span"}, cls \in ClassStrings :
                result = HTMLTemplate(tag, cls, Str(hexValue), White,
                            IF GivenShowBorder
                            THEN "border: 1px solid rgba(255,255,255,0.3);" ELSE "")

C10_Witness ==
    /\ op = "createColoredHex"
    /\ hexValue = <<"#","f","f","f">>
    /\ options.kind = "undefined"
    /\ result.backgroundColor = "#fff"
    /\ result.color = White
    /\ result.border = WhiteBorder

====
